---- MODULE Spec2Model ----
(***************************************************************************)
(* Model of the assignment-evaluation pipeline of src/app.py (Gemini) and  *)
(* src/app2_24_06_24.py (Groq / OpenAI).  Both files are Streamlit scripts: *)
(* every user interaction re-executes the script from its first line with  *)
(* fresh module globals, while st.session_state survives from one          *)
(* execution to the next.  One execution with uploaded files runs the      *)
(* per-file loop: extract text, call the backend, validate the keys of the *)
(* reply, present it, advance the progress bar.                            *)
(*                                                                         *)
(* The uploaded file list, the bytes of each file and the replies of the   *)
(* backends are inputs.  The i-th uploaded file is drawn when the loop     *)
(* reaches it and each reply is drawn when the request is made.  An        *)
(* exception nobody catches ends the script execution (pc = "aborted").    *)
(***************************************************************************)
EXTENDS Integers, Sequences, FiniteSets, TLC

VARIABLES
    variant,        \* which script runs: "app" (src/app.py) or "app2" (src/app2_24_06_24.py)
    session_state,  \* st.session_state: the names of the keys stored in it
    analysis_type,  \* the selectbox value: "Text only" or "Vision"
    nfiles,         \* len(uploaded_files)
    idx,            \* files taken from uploaded_files so far; python's idx is idx - 1
    file,           \* the loop variable file
    text,           \* the script global text
    images,         \* len(images), the page paths pdf_to_images returned
    page,           \* pages of images the Vision loop has gone through
    disk,           \* page_<p>.png in the working directory: who rendered it
    swot_analysis,  \* the script global swot_analysis
    progress,       \* the progress bar element
    pc,             \* position of the script execution
    notice,         \* the st.warning / st.error banner shown for the current file
    calls,          \* backend requests issued for the current file
    extracted,      \* extract_text has returned for the current file
    path,           \* the branch of extract_text the current file took
    valid,          \* outcome of the key check for the current file
    presented,      \* the value whose fields the expander of the current file showed
    submitted       \* who rendered the page images of the last Vision request

vars == <<variant, session_state, analysis_type, nfiles, idx, file, text, images,
          page, disk, swot_analysis, progress, pc, notice, calls, extracted, path,
          valid, presented, submitted>>

----------------------------------------------------------------------------
(* Bounds of the model *)

MaxFiles == 2
MaxTextLen == 1
MaxPages == 2

----------------------------------------------------------------------------
(* Inputs *)

Variants == {"app", "app2"}
AnalysisTypes == {"Text only", "Vision"}

PdfType == "application/pdf"
DocxType == "application/vnd.openxmlformats-officedocument.wordprocessingml.document"
ImageTypes == {"image/png"}
FileTypes == {PdfType, DocxType, "text/plain", "application/zip"} \cup ImageTypes

\* characters of an extracted text: one whitespace character, one letter
Chars == {" ", "a"}
Texts == UNION {[1..n -> Chars] : n \in 0..MaxTextLen}

\* An uploaded file: its declared type, whether its bytes decode under the
\* extractor its type selects, and the text that extractor recovers.
Files == {f \in [type : FileTypes, decodable : BOOLEAN, content : Texts] :
            ~f.decodable => f.content = <<>>}
NoFile == [type |-> "none", decodable |-> TRUE, content |-> <<>>]

\* The keys of expected_json_format
ExpectedKeys == {"Strengths", "Weaknesses", "Opportunities", "Threats",
                 "Total Marks", "Word Count"}
KeyUniverse == ExpectedKeys \cup {"error", "strengths"}

\* What a value of a reply object is: a number, free prose, or prose that
\* spells out each of the six expected key names.
Vals == {"number", "prose", "key list"}
Mentions(val, k) == val = "key list" /\ k \in ExpectedKeys

\* Key sets of the JSON objects a backend replies with: the expected keys with
\* none, one or the two numeric ones missing, with or without an error key;
\* an empty object; a lone error key; the expected keys with one in lower case.
MissingSets == {{}} \cup {{k} : k \in ExpectedKeys} \cup {{"Total Marks", "Word Count"}}
ReplyKeySets ==
    {(ExpectedKeys \ D) \cup X : D \in MissingSets, X \in {{}, {"error"}}}
    \cup {{}, {"error"}, (ExpectedKeys \ {"Strengths"}) \cup {"strengths"}}

\* What one backend request comes to: the transport fails, the reply body has
\* no candidates/choices, the reply text is not JSON, or it is a JSON object.
Outcomes ==
    [status : {"transport_error", "no_candidates", "not_json"}, keys : {{}}, val : {"prose"}]
    \cup [status : {"object"}, keys : ReplyKeySets, val : Vals]

----------------------------------------------------------------------------
(* Python values held by swot_analysis *)

\* kind "unbound": the name is not assigned; "str": a raw reply text;
\* "map": a dict.  of: 1 when a request for the current file produced it,
\* 0 when it is left from an earlier file.
Unbound == [kind |-> "unbound", keys |-> {}, val |-> "prose", of |-> 0]
Str(keys, val) == [kind |-> "str", keys |-> keys, val |-> val, of |-> 1]
Map(keys, val) == [kind |-> "map", keys |-> keys, val |-> val, of |-> 1]
Stale(v) == [v EXCEPT !.of = 0]

Returned(v) == [raised |-> FALSE, value |-> v]
Raised == [raised |-> TRUE, value |-> Unbound]

----------------------------------------------------------------------------
(* The functions of the scripts *)

\* not text: python's truth value of a string
IsEmpty(t) == Len(t) = 0

\* extract_text with the image test widened to every type that is neither PDF
\* nor DOCX nor text/plain.
extract_text_ocr_default(v, f) ==
    LET branch == IF f.type = PdfType THEN "pdfminer"
                  ELSE IF f.type = DocxType THEN "docx"
                  ELSE IF f.type # "text/plain" THEN "ocr"
                  ELSE "utf8"
    IN [path |-> branch, raised |-> ~f.decodable, text |-> f.content]

\* extract_text(file): the branch taken, whether it raised, the text returned.
\* app.py has no image branch; app2 sends image/* to pytesseract.  Every other
\* type falls to file.read().decode("utf-8").
extract_text(v, f) ==
    LET branch == IF f.type = PdfType THEN "pdfminer"
                  ELSE IF f.type = DocxType THEN "docx"
                  ELSE IF v = "app2" /\ f.type \in ImageTypes THEN "ocr"
                  ELSE "utf8"
    IN [path |-> branch, raised |-> ~f.decodable, text |-> f.content]

\* gemini_json: requests.post / response.json() raise on a transport failure,
\* response_data["candidates"] raises on a body without candidates; otherwise
\* the text of the first part is returned as it is, a str.
gemini_json(o) ==
    IF o.status \in {"transport_error", "no_candidates"} THEN Raised
    ELSE Returned(Str(o.keys, o.val))

\* process_images_gemini: json.loads(response.text), and every exception of
\* the request or of the parse becomes {"error": str(e)}.
process_images_gemini(o) ==
    IF o.status = "object" THEN Returned(Map(o.keys, o.val))
    ELSE Returned(Map({"error"}, "prose"))

\* call_groq_for_swot: json.loads(completion.choices[0].message.content),
\* nothing is caught.
call_groq_for_swot(o) ==
    IF o.status = "object" THEN Returned(Map(o.keys, o.val)) ELSE Raised

\* call_openai_for_swot: completion is the list .choices, and
\* completion.message raises AttributeError on a list, whatever the reply.
call_openai_for_swot(o) == Raised

\* KeyIn as it would be were the dict searched like its text: a name counts as
\* present when a value spells it.
KeyInText(k, v) == k \in v.keys \/ Mentions(v.val, k)

\* key in swot_analysis: a key lookup on a dict, a substring test on a str.
\* No name of KeyUniverse is a substring of another, so a name occurs in a
\* reply text when it is one of its keys or one of its values spells it.
KeyIn(k, v) ==
    IF v.kind = "map" THEN k \in v.keys
    ELSE k \in v.keys \/ Mentions(v.val, k)

\* all(key in swot_analysis for key in expected_json_keys)
KeysValid(v) == \A k \in ExpectedKeys : KeyIn(k, v)

\* swot_analysis['Word Count'], ['Total Marks'], ['Strengths'], ... in the
\* expander: a str index on a str raises TypeError, a missing key KeyError.
ReadsFields(v) == v.kind = "map" /\ ExpectedKeys \subseteq v.keys

\* The session key the script stores the typed API key under; app2 shows the
\* input only in Vision mode.
StoredKey(v, mode, key_input) ==
    IF key_input = "" THEN {}
    ELSE IF v = "app" THEN {"gemini_api_key"}
    ELSE IF mode = "Vision" THEN {"openai_api_key"}
    ELSE {}

\* The guard with app2's mode test carried over to app.py.
MissingKeyVisionOnly(v, mode, session) ==
    /\ mode = "Vision"
    /\ (IF v = "app" THEN "gemini_api_key" ELSE "openai_api_key") \notin session

\* The guard before the loop: the branch that warns instead of processing.
MissingKey(v, mode, session) ==
    IF v = "app" THEN "gemini_api_key" \notin session
    ELSE mode = "Vision" /\ "openai_api_key" \notin session

----------------------------------------------------------------------------
(* State *)

NoProgress == [shown |-> FALSE, num |-> 0, den |-> 1]
Progress(n, d) == [shown |-> TRUE, num |-> n, den |-> d]

Init ==
    /\ variant \in Variants
    /\ session_state = {}
    /\ analysis_type = "Text only"
    /\ nfiles = 0
    /\ idx = 0
    /\ file = NoFile
    /\ text = <<>>
    /\ images = 0
    /\ page = 0
    /\ disk = [p \in 1..MaxPages |-> "none"]
    /\ swot_analysis = Unbound
    /\ progress = NoProgress
    /\ pc = "idle"
    /\ notice = "none"
    /\ calls = 0
    /\ extracted = FALSE
    /\ path = "none"
    /\ valid = "none"
    /\ presented = Unbound
    /\ submitted = {}

\* what the loop records about the file it is in
perFile == <<notice, calls, extracted, path, valid, presented, submitted>>

Abort == pc' = "aborted"

\* One execution of the script from its top to the loop: the widgets are read,
\* a typed key is stored, the globals start unassigned, and the guard decides.
Rerun(mode, key_input, n) ==
    /\ pc \in {"idle", "warned", "done", "aborted"}
    /\ analysis_type' = mode
    /\ session_state' = session_state \cup StoredKey(variant, mode, key_input)
    /\ nfiles' = n
    /\ idx' = 0
    /\ file' = NoFile
    /\ text' = <<>>
    /\ images' = 0
    /\ page' = 0
    /\ swot_analysis' = Unbound
    /\ calls' = 0
    /\ extracted' = FALSE
    /\ path' = "none"
    /\ valid' = "none"
    /\ presented' = Unbound
    /\ submitted' = {}
    /\ IF n = 0
         THEN pc' = "idle" /\ notice' = "none" /\ progress' = NoProgress
         ELSE IF MissingKey(variant, mode, session_state')
         THEN pc' = "warned" /\ notice' = "warning" /\ progress' = NoProgress
         ELSE pc' = "for" /\ notice' = "none" /\ progress' = Progress(0, n)
    /\ UNCHANGED <<variant, disk>>

\* for idx, file in enumerate(uploaded_files): the next file
TakeFile(f) ==
    /\ pc = "for"
    /\ idx < nfiles
    /\ idx' = idx + 1
    /\ file' = f
    /\ pc' = "extract"
    /\ swot_analysis' = Stale(swot_analysis)
    /\ disk' = [p \in 1..MaxPages |-> IF disk[p] = "current" THEN "earlier" ELSE disk[p]]
    /\ notice' = "none"
    /\ calls' = 0
    /\ extracted' = FALSE
    /\ path' = "none"
    /\ valid' = "none"
    /\ presented' = Unbound
    /\ submitted' = {}
    /\ UNCHANGED <<variant, session_state, analysis_type, nfiles, text, images, page, progress>>

\* the loop is exhausted: progress_bar.empty()
LoopExit ==
    /\ pc = "for"
    /\ idx = nfiles
    /\ progress' = NoProgress
    /\ pc' = "done"
    /\ UNCHANGED <<variant, session_state, analysis_type, nfiles, idx, file, text, images,
                   page, disk, swot_analysis>>
    /\ UNCHANGED perFile

\* text = extract_text(file); if not text: st.error(...); continue
Extract ==
    /\ pc = "extract"
    /\ LET r == extract_text(variant, file) IN
        /\ path' = r.path
        /\ IF r.raised
             THEN Abort /\ UNCHANGED <<text, extracted, notice>>
             ELSE /\ text' = r.text
                  /\ extracted' = TRUE
                  /\ IF IsEmpty(r.text)
                       THEN notice' = "no text" /\ pc' = "for"
                       ELSE notice' = notice /\ pc' = "call"
    /\ UNCHANGED <<variant, session_state, analysis_type, nfiles, idx, file, images, page,
                   disk, swot_analysis, progress, calls, valid, presented, submitted>>

\* Text only: one request, gemini_json in app.py, call_groq_for_swot in app2
CallText(o) ==
    /\ pc = "call"
    /\ analysis_type = "Text only"
    /\ calls' = calls + 1
    /\ LET r == IF variant = "app" THEN gemini_json(o) ELSE call_groq_for_swot(o) IN
        IF r.raised
          THEN Abort /\ UNCHANGED swot_analysis
          ELSE swot_analysis' = r.value /\ pc' = "validate"
    /\ UNCHANGED <<variant, session_state, analysis_type, nfiles, idx, file, text, images,
                   page, disk, progress, notice, extracted, path, valid, presented,
                   submitted>>

\* app.py, Vision: images = pdf_to_images(file).  convert_from_path is a
\* library call on the upload: it raises, or yields n pages, each saved as
\* page_<i>.png over whatever file of that name is there.
RenderPages(ok, n) ==
    /\ pc = "call"
    /\ analysis_type = "Vision"
    /\ variant = "app"
    /\ IF ok
         THEN /\ images' = n
              /\ page' = 0
              /\ disk' = [p \in 1..MaxPages |-> IF p <= n THEN "current" ELSE disk[p]]
              /\ pc' = "pages"
         ELSE Abort /\ UNCHANGED <<images, page, disk>>
    /\ UNCHANGED <<variant, session_state, analysis_type, nfiles, idx, file, text,
                   swot_analysis, progress>>
    /\ UNCHANGED perFile

\* app.py, Vision: one turn of  for image_path in images:  a request with
\* every page image of the list, its result assigned to swot_analysis.
PageCall(o) ==
    /\ pc = "pages"
    /\ page < images
    /\ page' = page + 1
    /\ calls' = calls + 1
    /\ submitted' = {disk[p] : p \in 1..images}
    /\ swot_analysis' = process_images_gemini(o).value
    /\ UNCHANGED <<variant, session_state, analysis_type, nfiles, idx, file, text, images,
                   disk, progress, pc, notice, extracted, path, valid, presented>>

\* app.py, Vision: the page loop is exhausted
PagesDone ==
    /\ pc = "pages"
    /\ page = images
    /\ pc' = "validate"
    /\ UNCHANGED <<variant, session_state, analysis_type, nfiles, idx, file, text, images,
                   page, disk, swot_analysis, progress>>
    /\ UNCHANGED perFile

\* app2, Vision: encode_image(file) opens the upload as a path (it raises or
\* not), then call_openai_for_swot makes its request.
CallOpenAI(opened, o) ==
    /\ pc = "call"
    /\ analysis_type = "Vision"
    /\ variant = "app2"
    /\ IF opened
         THEN /\ calls' = calls + 1
              /\ LET r == call_openai_for_swot(o) IN
                   IF r.raised
                     THEN Abort /\ UNCHANGED swot_analysis
                     ELSE swot_analysis' = r.value /\ pc' = "validate"
         ELSE Abort /\ UNCHANGED <<calls, swot_analysis>>
    /\ UNCHANGED <<variant, session_state, analysis_type, nfiles, idx, file, text, images,
                   page, disk, progress, notice, extracted, path, valid, presented,
                   submitted>>

\* if not all(key in swot_analysis for key in expected_json_keys):
\*     st.error(...); continue
\* An unassigned swot_analysis raises NameError.
Validate ==
    /\ pc = "validate"
    /\ IF swot_analysis.kind = "unbound"
         THEN Abort /\ UNCHANGED <<valid, notice>>
         ELSE IF KeysValid(swot_analysis)
         THEN valid' = "pass" /\ pc' = "present" /\ UNCHANGED notice
         ELSE valid' = "fail" /\ notice' = "invalid" /\ pc' = "for"
    /\ UNCHANGED <<variant, session_state, analysis_type, nfiles, idx, file, text, images,
                   page, disk, swot_analysis, progress, calls, extracted, path, presented,
                   submitted>>

\* the expander with the six fields, then
\* progress_bar.progress((idx + 1) / len(uploaded_files))
Present ==
    /\ pc = "present"
    /\ IF ReadsFields(swot_analysis)
         THEN /\ presented' = swot_analysis
              /\ progress' = Progress(idx, nfiles)
              /\ pc' = "for"
         ELSE Abort /\ UNCHANGED <<presented, progress>>
    /\ UNCHANGED <<variant, session_state, analysis_type, nfiles, idx, file, text, images,
                   page, disk, swot_analysis, notice, calls, extracted, path, valid,
                   submitted>>

Next ==
    \/ \E mode \in AnalysisTypes, key_input \in {"", "key"}, n \in 0..MaxFiles :
          Rerun(mode, key_input, n)
    \/ \E f \in Files : TakeFile(f)
    \/ LoopExit
    \/ Extract
    \/ \E o \in Outcomes : CallText(o)
    \/ \E ok \in BOOLEAN, n \in 0..MaxPages : RenderPages(ok, n)
    \/ \E o \in Outcomes : PageCall(o)
    \/ PagesDone
    \/ \E opened \in BOOLEAN, o \in Outcomes : CallOpenAI(opened, o)
    \/ Validate
    \/ Present

Spec == Init /\ [][Next]_vars

----------------------------------------------------------------------------
(* Vocabulary of the properties *)

\* A key for the selected backend is held: the typed key in the session, or
\* for app2's Text only mode the Groq key of st.secrets, loaded before any
\* widget is drawn.
KeyHeld(v, mode, session) ==
    IF v = "app" THEN "gemini_api_key" \in session
    ELSE IF mode = "Vision" THEN "openai_api_key" \in session
    ELSE TRUE

\* the text has no character other than whitespace (the empty text included)
IsBlank(t) == \A i \in 1..Len(t) : t[i] = " "
\* the key check of the current file has been made
Validated == valid # "none"
\* the model-call step of the current file is behind
CallStepOver == pc \notin {"extract", "call"}
\* the value is an error payload {"error": message} a call for this file gave
ErrorPayload(v) == v.kind \in {"map", "str"} /\ v.keys = {"error"} /\ v.of = 1
\* the declared type is none of PDF, DOCX, plain text, image
Unrecognized(f) == f.type \in FileTypes \ ({PdfType, DocxType, "text/plain"} \cup ImageTypes)

----------------------------------------------------------------------------
(* Properties *)

\* C1: whenever the key check has been made on a mapping, it passed if and
\* only if every expected key is a top-level key of the mapping, whatever the
\* values and the other keys are.
C1_ValidationIsKeyMembership ==
    (Validated /\ swot_analysis.kind = "map")
        => ((valid = "pass") <=> (ExpectedKeys \subseteq swot_analysis.keys))

\* C1 witness: a mapping with all six keys and an extra error key passed.
C1_Witness ==
    /\ valid = "pass"
    /\ swot_analysis.kind = "map"
    /\ "error" \in swot_analysis.keys
    /\ swot_analysis.val = "number"

\* C2: whenever control reaches the presenter, the value it is handed is a
\* parsed mapping holding all six keys, so that reading its fields succeeds.
C2_PresenterGetsParsedMapping ==
    pc = "present"
        => /\ swot_analysis.kind = "map"
           /\ ExpectedKeys \subseteq swot_analysis.keys
           /\ ReadsFields(swot_analysis)

\* C3: no error ends the script execution: the batch is never aborted.
C3_NoErrorAbortsBatch == pc # "aborted"

\* C4: each time the loop is back at its head after i >= 1 files, the progress
\* bar shows i / N.
C4_ProgressAfterEachFile ==
    (pc = "for" /\ idx >= 1) => progress = Progress(idx, nfiles)

\* C5: once the model-call step of a file whose extracted text is empty or
\* whitespace only is behind, the "no text" notice is shown and no backend
\* request was issued for the file.
C5_BlankTextSkipped ==
    (extracted /\ IsBlank(text) /\ CallStepOver)
        => (calls = 0 /\ notice = "no text")

\* C6: no file causes more than one backend request.
C6_SingleRequestPerFile == calls <= 1

\* C7: once an error payload has gone past the key check, the check failed,
\* the "invalid" notice is shown, nothing was presented and the loop goes on.
C7_ErrorPayloadSkipped ==
    (ErrorPayload(swot_analysis) /\ pc \notin {"pages", "validate"})
        => /\ valid = "fail"
           /\ notice = "invalid"
           /\ presented = Unbound
           /\ pc \in {"for", "done"}

C9_NoStateAcrossFiles ==
    /\ Validated => (swot_analysis.of = 1 /\ calls >= 1)
    /\ presented # Unbound => presented.of = 1
    /\ submitted \subseteq {"current"}

\* C10: with files uploaded and no key held for the selected backend, the
\* warning is shown and nothing of the batch happens; a request is only
\* issued while a key is held.
C10_CredentialGate ==
    /\ (nfiles > 0 /\ ~KeyHeld(variant, analysis_type, session_state))
          => /\ pc = "warned"
             /\ notice = "warning"
             /\ idx = 0
             /\ path = "none"
             /\ ~extracted
             /\ calls = 0
             /\ presented = Unbound
             /\ ~progress.shown
    /\ calls > 0 => KeyHeld(variant, analysis_type, session_state)
    /\ pc \in {"for", "extract", "call", "pages", "validate", "present"}
          => KeyHeld(variant, analysis_type, session_state)

\* C10 witness: a full batch is uploaded with no key held, and the warning
\* stands.
C10_Witness ==
    /\ pc = "warned"
    /\ nfiles = MaxFiles
    /\ notice = "warning"
    /\ ~KeyHeld(variant, analysis_type, session_state)

====
